---- MODULE Spec2Model ----
(***************************************************************************)
(* Model of src/server/features/fileConfigurationManager.ts:               *)
(* FileConfigurationManager keeps, per document uri, the configuration it  *)
(* last pushed to tsserver with the 'configure' request (cachedMap), and   *)
(* ensureConfigurationOptions / ensureConfigurationForDocument re-send the *)
(* configuration when the freshly derived one differs from the cached one. *)
(*                                                                         *)
(* JavaScript objects are functions from key names to values; a missing    *)
(* key reads as Undefined.  Booleans stored in objects are the strings     *)
(* "true" / "false" so that they compare with Undefined.  The event loop   *)
(* is single-threaded: an action is the code that runs between two awaits. *)
(*                                                                         *)
(* The same file holds LanguageProvider: its constructor arms the client's *)
(* onReady callback, registerProviders pushes one disposable per provider  *)
(* it registers onto this.disposables, and dispose() releases what that    *)
(* array holds.  Spec and SpecLegacy run the configuration manager (from   *)
(* 3.3.3 and from 2.8.0), SpecProvider runs LanguageProvider for every     *)
(* version threshold, host and toggle setting.                             *)
(***************************************************************************)
EXTENDS Integers, Sequences, FiniteSets, TLC

(* ------------------------------ bounds --------------------------------- *)
\* total number of 'configure' requests issued in one behaviour
MaxCalls == 4
\* total number of editor events (close, reset, cancel, settings or version
\* change) in one behaviour
MaxEvents == 1
\* number of calls of LanguageProvider.dispose in one behaviour
MaxDisposes == 2

(* --------------------------- program constants ------------------------- *)
v206 == 206
v220 == 220
v230 == 230
v240 == 240
v280 == 280
v290 == 290
v300 == 300
v333 == 333
v350 == 350
v370 == 370
v380 == 380
v440 == 440

Undefined == "undefined"
Bool(b) == IF b THEN "true" ELSE "false"
Not(v) == IF v = "true" THEN "false" ELSE "true"
EmptyObject == [k \in {} |-> Undefined]

(* ------------------------------ fixtures ------------------------------- *)
Tasks == {1, 2}
Docs == {"file:///a.ts", "untitled:b.js"}
languageId(uri) == IF uri = "file:///a.ts" THEN "typescript" ELSE "javascript"
startsWithFile(uri) == uri = "file:///a.ts"
toPath(uri) == IF uri = "file:///a.ts" THEN "/a.ts" ELSE "^/untitled/b.js"
Languages == {"typescript", "javascript"}
Versions == {v280, v290, v333}
\* the indentation facts (tabSize, insertSpaces) a caller or the editor hands in
EditorOptions == { <<2, TRUE>>, <<4, FALSE>> }
\* the (language, key, value) edits a user may make in the settings store
SettingEdits ==
  { <<"typescript", "format.semicolons", "insert">>,
    <<"javascript", "preferences.quoteStyle", "double">> }

\* every threshold the code tests and a version below them all (2.0.0)
AllVersions == {200, v206, v220, v230, v240, v280, v290, v300, v333, v350, v370, v380, v440}
\* ids of language descriptions a LanguageProvider is constructed with
DescriptionIds == {"typescript", "javascript", "vue"}
\* the languages.register* functions registerProviders tests for before use
HostApis ==
  { "registerCallHierarchyProvider", "registerDocumentSemanticTokensProvider",
    "registerDocumentRangeSemanticTokensProvider", "registerInlayHintsProvider" }
\* hosts: every function present, one of them missing, or none present
HostConfigs == {HostApis, {}} \cup { HostApis \ {a} : a \in HostApis }
\* the settings registerProviders reads and the values a user gives them
ToggleKeys ==
  { "updateImportsOnFileMove.enable", "referencesCodeLens.enable",
    "implementationsCodeLens.enable" }
ToggleConfigs ==
  { [k \in on |-> "true"] : on \in SUBSET ToggleKeys } \cup { [k \in ToggleKeys |-> "false"] }

VARIABLES
  cachedMap,   \* this.cachedMap: uri -> FileConfiguration (partial function)
  isOpen,      \* the editor's open documents
  settings,    \* workspace configuration: language -> (key -> value), set keys only
  apiVersion,  \* this.client.apiVersion
  pc,          \* per task: "idle", "getFormatOptions", "configure1", "configure2"
  tdoc,        \* per task: document.uri of the running call
  token,       \* per task: the CancellationToken is cancelled
  out1,        \* per task: outcome of the no-deadline configure (line 79)
  settled,     \* the ensure* promise that has just settled, until its caller resumes
  queue,       \* configure requests issued and not yet answered, in issue order
  acked,       \* backend: uri -> snapshot of its last reply of type 'response'
  abandoned,   \* uri -> entry left behind by an ensure that a rejected line 79 ended
  run,         \* bookkeeping of consecutive undisturbed ensure calls for one uri
  ncalls,      \* number of configure requests issued so far
  nevents,     \* number of editor events so far
  lpId,        \* LanguageProvider: this.description.id
  hostApis,    \* the optional languages.register* functions the host offers
  lpState,     \* LanguageProvider: "constructed", or "ready" once onReady fired
  disposables, \* LanguageProvider: this.disposables
  released,    \* the disposables dispose() was called on, in that order
  logged,      \* the messages handed to this.client.logger.error
  ndisposes    \* number of calls of LanguageProvider.dispose so far

lpVars == <<lpId, hostApis, lpState, disposables, released, logged, ndisposes>>
vars == <<cachedMap, isOpen, settings, apiVersion, pc, tdoc, token, out1,
          settled, queue, acked, abandoned, run, ncalls, nevents, lpVars>>

(* --------------------------- pure functions ---------------------------- *)
Get(o, k) == IF k \in DOMAIN o THEN o[k] ELSE Undefined

\* objAreEqual with the test of line 16 inverted (=== for !==)
objAreEqual_Inverted(a, b) == \A key \in DOMAIN a : Get(a, key) # Get(b, key)

\* objAreEqual with the loop of line 14 stopping one key early; the last keys
\* of the two object literals are semicolons and includeInlayEnumMemberValueHints
objAreEqual_OffByOne(a, b) ==
  \A key \in DOMAIN a \ {"semicolons", "includeInlayEnumMemberValueHints"} :
    Get(a, key) = Get(b, key)

\* objAreEqual: only the keys of a are visited
objAreEqual(a, b) == \A key \in DOMAIN a : Get(a, key) = Get(b, key)

\* WorkspaceConfiguration.get(key, default) on section `section` of `language`
configGet(language, section, key, default) ==
  LET name == IF section = "" THEN key ELSE section \o "." \o key
  IN IF name \in DOMAIN settings[language] THEN settings[language][name] ELSE default

isTypeScriptDocument(id) == id = "typescript"

getFormatOptions(options, language, uri) ==
  LET get(key) == configGet(language, "format", key, Undefined)
  IN [ tabSize |-> options.tabSize,
       indentSize |-> options.tabSize,
       convertTabsToSpaces |-> Bool(options.insertSpaces),
       newLineCharacter |-> "\n",
       insertSpaceAfterCommaDelimiter |-> get("insertSpaceAfterCommaDelimiter"),
       insertSpaceAfterConstructor |-> get("insertSpaceAfterConstructor"),
       insertSpaceAfterSemicolonInForStatements |-> get("insertSpaceAfterSemicolonInForStatements"),
       insertSpaceBeforeAndAfterBinaryOperators |-> get("insertSpaceBeforeAndAfterBinaryOperators"),
       insertSpaceAfterKeywordsInControlFlowStatements |-> get("insertSpaceAfterKeywordsInControlFlowStatements"),
       insertSpaceAfterFunctionKeywordForAnonymousFunctions |-> get("insertSpaceAfterFunctionKeywordForAnonymousFunctions"),
       insertSpaceBeforeFunctionParenthesis |-> get("insertSpaceBeforeFunctionParenthesis"),
       insertSpaceAfterOpeningAndBeforeClosingNonemptyParenthesis |-> get("insertSpaceAfterOpeningAndBeforeClosingNonemptyParenthesis"),
       insertSpaceAfterOpeningAndBeforeClosingNonemptyBrackets |-> get("insertSpaceAfterOpeningAndBeforeClosingNonemptyBrackets"),
       insertSpaceAfterOpeningAndBeforeClosingEmptyBraces |-> get("insertSpaceAfterOpeningAndBeforeClosingEmptyBraces"),
       insertSpaceAfterOpeningAndBeforeClosingNonemptyBraces |-> get("insertSpaceAfterOpeningAndBeforeClosingNonemptyBraces"),
       insertSpaceAfterOpeningAndBeforeClosingTemplateStringBraces |-> get("insertSpaceAfterOpeningAndBeforeClosingTemplateStringBraces"),
       insertSpaceAfterOpeningAndBeforeClosingJsxExpressionBraces |-> get("insertSpaceAfterOpeningAndBeforeClosingJsxExpressionBraces"),
       insertSpaceAfterTypeAssertion |-> get("insertSpaceAfterTypeAssertion"),
       placeOpenBraceOnNewLineForFunctions |-> get("placeOpenBraceOnNewLineForFunctions"),
       placeOpenBraceOnNewLineForControlBlocks |-> get("placeOpenBraceOnNewLineForControlBlocks"),
       semicolons |-> get("semicolons") ]

getCompleteOptions(languageId_) ==
  LET lang == IF isTypeScriptDocument(languageId_) THEN "typescript" ELSE "javascript"
      get(key) == configGet(lang, "suggest", key, "true")
  IN [ enabled |-> get("enabled"),
       names |-> get("names"),
       paths |-> get("paths"),
       completeFunctionCalls |-> get("completeFunctionCalls"),
       autoImports |-> get("autoImports"),
       includeCompletionsWithObjectLiteralMethodSnippets |-> get("suggest.objectLiteralMethodSnippets.enabled"),
       generateReturnInDocTemplate |-> get("jsdoc.generateReturns"),
       importStatementSuggestions |-> get("importStatements"),
       includeCompletionsForImportStatements |-> get("includeCompletionsForImportStatements"),
       includeCompletionsWithSnippetText |-> get("includeCompletionsWithSnippetText"),
       includeCompletionsWithClassMemberSnippets |-> get("classMemberSnippets.enabled"),
       includeAutomaticOptionalChainCompletions |-> get("includeAutomaticOptionalChainCompletions") ]

getQuoteStyle(language) ==
  LET quoteStyle == configGet(language, "preferences", "quoteStyle", "auto")
  IN IF apiVersion >= v333 \/ quoteStyle # "auto" THEN quoteStyle ELSE "single"

getImportModuleSpecifier(language) ==
  LET val == configGet(language, "preferences", "importModuleSpecifier", Undefined)
  IN IF val \in {"project-relative", "relative", "non-relative"} THEN val ELSE Undefined

getImportModuleSpecifierEndingPreference(language) ==
  LET val == configGet(language, "preferences", "importModuleSpecifierEnding", Undefined)
  IN IF val \in {"minimal", "index", "js"} THEN val ELSE "auto"

getJsxAttributeCompletionStyle(language) ==
  LET val == configGet(language, "preferences", "jsxAttributeCompletionStyle", Undefined)
  IN IF val \in {"braces", "none"} THEN val ELSE "auto"

getInlayParameterNameHintsPreference(language) ==
  LET val == configGet(language, "", "inlayHints.parameterNames.enabled", Undefined)
  IN IF val \in {"none", "literals", "all"} THEN val ELSE Undefined

getInlayHintsPreferences(language) ==
  [ includeInlayParameterNameHints |-> getInlayParameterNameHintsPreference(language),
    includeInlayParameterNameHintsWhenArgumentMatchesName |->
      Not(configGet(language, "", "inlayHints.parameterNames.suppressWhenArgumentMatchesName", "true")),
    includeInlayFunctionParameterTypeHints |-> configGet(language, "", "inlayHints.parameterTypes.enabled", "false"),
    includeInlayVariableTypeHints |-> configGet(language, "", "inlayHints.variableTypes.enabled", "false"),
    includeInlayPropertyDeclarationTypeHints |-> configGet(language, "", "inlayHints.propertyDeclarationTypes.enabled", "false"),
    includeInlayFunctionLikeReturnTypeHints |-> configGet(language, "", "inlayHints.functionLikeReturnTypes.enabled", "false"),
    includeInlayEnumMemberValueHints |-> configGet(language, "", "inlayHints.enumMemberValues.enabled", "false") ]

\* getPreferences filling in the quote style only
getPreferences_OnlyQuoteStyle(language, uri) ==
  IF apiVersion < v290 THEN EmptyObject
  ELSE [quotePreference |-> getQuoteStyle(language)]

getPreferences(language, uri) ==
  IF apiVersion < v290 THEN EmptyObject
  ELSE
    LET suggestConfig == getCompleteOptions(language)
        pget(key, default) == configGet(language, "preferences", key, default)
    IN [ quotePreference |-> getQuoteStyle(language),
         importModuleSpecifierPreference |-> getImportModuleSpecifier(language),
         importModuleSpecifierEnding |-> getImportModuleSpecifierEndingPreference(language),
         jsxAttributeCompletionStyle |-> getJsxAttributeCompletionStyle(language),
         allowTextChangesInNewFiles |-> Bool(startsWithFile(uri)),
         allowRenameOfImportPath |-> "true",
         provideRefactorNotApplicableReason |-> "false",
         providePrefixAndSuffixTextForRename |->
           IF pget("renameShorthandProperties", "true") = "false" THEN "false"
           ELSE pget("useAliasesForRenames", "true"),
         generateReturnInDocTemplate |-> suggestConfig.generateReturnInDocTemplate,
         includeCompletionsForImportStatements |-> suggestConfig.includeCompletionsForImportStatements,
         includeCompletionsWithClassMemberSnippets |-> suggestConfig.includeCompletionsWithClassMemberSnippets,
         includeCompletionsWithSnippetText |-> suggestConfig.includeCompletionsWithSnippetText,
         includeCompletionsWithObjectLiteralMethodSnippets |-> suggestConfig.includeCompletionsWithObjectLiteralMethodSnippets,
         includeAutomaticOptionalChainCompletions |-> suggestConfig.includeAutomaticOptionalChainCompletions,
         useLabelDetailsInCompletionEntries |-> "true",
         allowIncompleteCompletions |-> "true",
         displayPartsForJSDoc |-> "true" ]
       @@ getInlayHintsPreferences(language)

getFileOptions(options, uri) ==
  LET lang == IF isTypeScriptDocument(languageId(uri)) THEN "typescript" ELSE "javascript"
  IN [ formatOptions |-> getFormatOptions(options, lang, uri),
       preferences |-> getPreferences(lang, uri) ]


(* ------------------------------ helpers -------------------------------- *)
NoRun == [uri |-> "-", n |-> 0, calls |-> 0]
NoCall == [task |-> 0, uri |-> "-", args |-> EmptyObject, result |-> "none",
           out1 |-> "none", out2 |-> "none"]
Active == {"configure1", "configure2"}

\* Map.prototype.delete
MapDelete(m, k) == [x \in (DOMAIN m) \ {k} |-> m[x]]
\* Map.prototype.set storing nothing
MapSet_Noop(m, k, v) == m

\* Map.prototype.set
MapSet(m, k, v) == [x \in (DOMAIN m) \cup {k} |-> IF x = k THEN v ELSE m[x]]
\* Map.prototype.clear
MapClear(m) == [x \in {} |-> EmptyObject]

\* task slots are handed out in order: a call takes the lowest free slot
FreeSlot(t) == pc[t] = "idle" /\ \A u \in Tasks : u < t => pc[u] # "idle"

\* position of task t's request in the queue (0 when it has none)
IndexOf(t) ==
  IF \E i \in 1..Len(queue) : queue[i].task = t
  THEN CHOOSE i \in 1..Len(queue) : queue[i].task = t
  ELSE 0
RemoveAt(q, i) == [j \in 1..(Len(q) - 1) |-> IF j < i THEN q[j] ELSE q[j + 1]]

\* the request of lines 75-78 with the uri in place of the path of line 64
ConfigureRequest_FileIsUri(t, uri, currentOptions, deadline) ==
  [ task |-> t, uri |-> uri, deadline |-> deadline,
    args |-> [ file |-> uri,
               formatOptions |-> currentOptions.formatOptions,
               preferences |-> currentOptions.preferences ] ]

\* the request of lines 75-78: { file, ...currentOptions }
ConfigureRequest(t, uri, currentOptions, deadline) ==
  [ task |-> t, uri |-> uri, deadline |-> deadline,
    args |-> [ file |-> toPath(uri),
               formatOptions |-> currentOptions.formatOptions,
               preferences |-> currentOptions.preferences ] ]
Snapshot(args) == [formatOptions |-> args.formatOptions, preferences |-> args.preferences]

\* the fast-path test of lines 71-73
CacheHit(uri, currentOptions) ==
  /\ uri \in DOMAIN cachedMap
  /\ objAreEqual(cachedMap[uri].formatOptions, currentOptions.formatOptions)
  /\ objAreEqual(cachedMap[uri].preferences, currentOptions.preferences)

\* the promise of task t settles; the slot is free again
Settle(t, uri, args, res, o1, o2) ==
  /\ settled' = [task |-> t, uri |-> uri, args |-> args, result |-> res,
                 out1 |-> o1, out2 |-> o2]
  /\ pc' = [pc EXCEPT ![t] = "idle"]
  /\ tdoc' = [tdoc EXCEPT ![t] = "-"]
  /\ token' = [token EXCEPT ![t] = FALSE]
  /\ out1' = [out1 EXCEPT ![t] = "none"]

\* FileConfigurationManager after its constructor (lines 49-61), no call running
InitManager ==
  /\ cachedMap = [x \in {} |-> EmptyObject]
  /\ isOpen = [d \in Docs |-> TRUE]
  /\ pc = [t \in Tasks |-> "idle"]
  /\ tdoc = [t \in Tasks |-> "-"]
  /\ token = [t \in Tasks |-> FALSE]
  /\ out1 = [t \in Tasks |-> "none"]
  /\ settled = NoCall
  /\ queue = <<>>
  /\ acked = [x \in {} |-> EmptyObject]
  /\ abandoned = [x \in {} |-> EmptyObject]
  /\ run = NoRun
  /\ ncalls = 0
  /\ nevents = 0

\* LanguageProvider after its constructor (lines 331-344): the configuration
\* listener of line 339 is its only disposable, onReady has not fired
InitLanguageProvider ==
  /\ lpState = "constructed"
  /\ disposables = <<"onDidChangeConfiguration">>
  /\ released = <<>>
  /\ logged = <<>>
  /\ ndisposes = 0

Init ==
  /\ InitManager
  /\ settings = [l \in Languages |-> EmptyObject]
  /\ apiVersion = v333
  /\ lpId = "typescript"
  /\ hostApis = HostApis
  /\ InitLanguageProvider

(* ------------------------------ actions -------------------------------- *)
\* Body of ensureConfigurationOptions up to its first await (lines 64-79).
ensureConfigurationOptions(t, uri, insertSpaces, tabSize) ==
  LET options == [tabSize |-> tabSize, insertSpaces |-> insertSpaces]
      currentOptions == getFileOptions(options, uri)
      hit == CacheHit(uri, currentOptions)
      others == \E u \in Tasks \ {t} : pc[u] \in Active /\ tdoc[u] = uri
      nextRun ==
        IF uri \notin DOMAIN cachedMap /\ ~others
        THEN [uri |-> uri, n |-> 0, calls |-> 1]
        ELSE IF run.uri # uri THEN run
        ELSE IF run.n = 1 /\ ~others /\ cachedMap[uri] = currentOptions
        THEN [run EXCEPT !.calls = IF hit THEN @ ELSE @ + 1,
                         !.n = IF hit THEN 2 ELSE @]
        ELSE NoRun
  IN /\ hit \/ ncalls + 2 <= MaxCalls
     /\ run' = nextRun
     /\ IF hit
        THEN /\ Settle(t, uri, currentOptions, "resolved", "none", "none")
             /\ UNCHANGED <<cachedMap, abandoned, queue, ncalls>>
        ELSE /\ cachedMap' = MapSet(cachedMap, uri, currentOptions)
             /\ abandoned' = MapDelete(abandoned, uri)
             /\ queue' = Append(queue, ConfigureRequest(t, uri, currentOptions, FALSE))
             /\ ncalls' = ncalls + 1
             /\ pc' = [pc EXCEPT ![t] = "configure1"]
             /\ tdoc' = [tdoc EXCEPT ![t] = uri]
             /\ UNCHANGED <<token, out1, settled>>
     /\ UNCHANGED <<isOpen, settings, apiVersion, acked, nevents>>

\* A feature provider calls ensureConfigurationOptions for an open document.
CallEnsureConfigurationOptions(t, uri, insertSpaces, tabSize) ==
  /\ settled = NoCall
  /\ UNCHANGED lpVars
  /\ FreeSlot(t)
  /\ isOpen[uri]
  /\ ensureConfigurationOptions(t, uri, insertSpaces, tabSize)

\* lines 90-99 without the test of line 93: the editor is always asked
CallEnsureConfigurationForDocument_AlwaysAsks(t, uri) ==
  /\ settled = NoCall
  /\ UNCHANGED lpVars
  /\ FreeSlot(t)
  /\ isOpen[uri]
  /\ pc' = [pc EXCEPT ![t] = "getFormatOptions"]
  /\ tdoc' = [tdoc EXCEPT ![t] = uri]
  /\ UNCHANGED <<cachedMap, isOpen, settings, apiVersion, token,
                 out1, settled, queue, acked, abandoned, run, ncalls, nevents>>

\* A feature provider calls ensureConfigurationForDocument (lines 90-99).
CallEnsureConfigurationForDocument(t, uri) ==
  /\ settled = NoCall
  /\ UNCHANGED lpVars
  /\ FreeSlot(t)
  /\ isOpen[uri]
  /\ IF uri \in DOMAIN cachedMap
     THEN ensureConfigurationOptions(t, uri,
            cachedMap[uri].formatOptions.convertTabsToSpaces = "true",
            cachedMap[uri].formatOptions.tabSize)
     ELSE /\ pc' = [pc EXCEPT ![t] = "getFormatOptions"]
          /\ tdoc' = [tdoc EXCEPT ![t] = uri]
          /\ UNCHANGED <<cachedMap, isOpen, settings, apiVersion, token,
                         out1, settled, queue, acked, abandoned, run, ncalls, nevents>>

\* workspace.getFormatOptions resolves with the editor's indentation (line 96).
GetFormatOptionsResolved(t, insertSpaces, tabSize) ==
  /\ settled = NoCall
  /\ UNCHANGED lpVars
  /\ pc[t] = "getFormatOptions"
  /\ ensureConfigurationOptions(t, tdoc[t], insertSpaces, tabSize)

\* the close handler deleting by the file path instead of the uri
onDidCloseTextDocument_ByPath(m, uri) == MapDelete(m, toPath(uri))

\* reset leaving the map as it is
reset_KeepsEntries(m) == m

\* workspace.onDidCloseTextDocument handler (lines 53-59)
onDidCloseTextDocument(m, uri) == MapDelete(m, uri)

\* FileConfigurationManager.reset (lines 101-103)
reset(m) == MapClear(m)

\* lines 82-84 without the test of the reply type
KeepsEntry_AnyReply(type) == TRUE

\* lines 82-84 testing for one failure type instead of for 'response'
KeepsEntry_UnlessNoContent(type) == type # "noContent"

\* lines 82-84: the entry stays only for a reply of type 'response'
KeepsEntry(type) == type = "response"

\* Line 79: the reply to the no-deadline configure.  A rejection leaves the
\* function with the exception; any reply goes on to line 81.
AfterConfigure1(t, req, outcome) ==
  IF outcome = "reject"
  THEN /\ Settle(t, req.uri, Snapshot(req.args), "rejected", outcome, "none")
       /\ queue' = Tail(queue)
       /\ ncalls' = ncalls
       /\ run' = IF run.uri = req.uri THEN NoRun ELSE run
       /\ abandoned' = IF req.uri \in DOMAIN cachedMap /\ cachedMap[req.uri] = Snapshot(req.args)
                       THEN MapSet(abandoned, req.uri, Snapshot(req.args))
                       ELSE abandoned
  ELSE /\ out1' = [out1 EXCEPT ![t] = outcome]
       /\ pc' = [pc EXCEPT ![t] = "configure2"]
       /\ queue' = Append(Tail(queue), [req EXCEPT !.deadline = TRUE])
       /\ ncalls' = ncalls + 1
       /\ run' = IF run.uri # req.uri THEN run
                 ELSE IF outcome = "response" THEN [run EXCEPT !.calls = @ + 1]
                 ELSE NoRun
       /\ UNCHANGED <<tdoc, token, settled, abandoned>>

\* lines 80-87 with a reply of type 'response' storing the sent snapshot again
AfterConfigure2_Reinserts(t, req, outcome) ==
  /\ Settle(t, req.uri, Snapshot(req.args), "resolved", out1[t], outcome)
  /\ IF outcome # "reject" /\ KeepsEntry(outcome)
     THEN /\ cachedMap' = MapSet(cachedMap, req.uri, Snapshot(req.args))
          /\ UNCHANGED abandoned
          /\ run' = IF run.uri = req.uri /\ run.n < 2 THEN [run EXCEPT !.n = @ + 1] ELSE run
     ELSE /\ cachedMap' = MapDelete(cachedMap, req.uri)
          /\ abandoned' = MapDelete(abandoned, req.uri)
          /\ run' = IF run.uri = req.uri THEN NoRun ELSE run

\* Lines 80-87: the reply to the deadline-bound configure.
AfterConfigure2(t, req, outcome) ==
  /\ Settle(t, req.uri, Snapshot(req.args), "resolved", out1[t], outcome)
  /\ IF outcome # "reject" /\ KeepsEntry(outcome)
     THEN /\ UNCHANGED <<cachedMap, abandoned>>
          /\ run' = IF run.uri = req.uri /\ run.n < 2 THEN [run EXCEPT !.n = @ + 1] ELSE run
     ELSE /\ cachedMap' = MapDelete(cachedMap, req.uri)
          /\ abandoned' = MapDelete(abandoned, req.uri)
          /\ run' = IF run.uri = req.uri THEN NoRun ELSE run

\* The backend answers the oldest outstanding configure request (it answers in
\* the order of issue and applies exactly the requests it answers with
\* 'response') and the ensure that awaits the reply runs on.
ConfigureReply(outcome) ==
  /\ settled = NoCall
  /\ UNCHANGED lpVars
  /\ queue # <<>>
  /\ LET req == Head(queue)
         t == req.task
     IN /\ acked' = IF outcome = "response"
                    THEN MapSet(acked, req.uri, Snapshot(req.args)) ELSE acked
        /\ IF ~req.deadline
           THEN /\ AfterConfigure1(t, req, outcome)
                /\ UNCHANGED cachedMap
           ELSE /\ AfterConfigure2(t, req, outcome)
                /\ queue' = Tail(queue)
                /\ UNCHANGED ncalls
  /\ UNCHANGED <<isOpen, settings, apiVersion, nevents>>

\* The caller cancels the token it passed to ensure*.
CancelToken(t) ==
  /\ settled = NoCall
  /\ UNCHANGED lpVars
  /\ nevents < MaxEvents
  /\ nevents' = nevents + 1
  /\ pc[t] \in {"getFormatOptions", "configure1", "configure2"}
  /\ ~token[t]
  /\ token' = [token EXCEPT ![t] = TRUE]
  /\ UNCHANGED <<cachedMap, isOpen, settings, apiVersion, pc, tdoc, out1,
                 settled, queue, acked, abandoned, run, ncalls>>

\* The deadline-bound configure of a cancelled token completes with a reply of
\* type 'cancelled'; the backend does not apply the request (lines 81-84).
ConfigureCancelled(t) ==
  /\ settled = NoCall
  /\ UNCHANGED lpVars
  /\ pc[t] = "configure2"
  /\ token[t]
  /\ IndexOf(t) > 0
  /\ queue' = RemoveAt(queue, IndexOf(t))
  /\ AfterConfigure2(t, queue[IndexOf(t)], "cancelled")
  /\ UNCHANGED <<isOpen, settings, apiVersion, acked, ncalls, nevents>>

\* The caller of ensure* resumes with the settled promise.
Return ==
  /\ settled # NoCall
  /\ UNCHANGED lpVars
  /\ settled' = NoCall
  /\ UNCHANGED <<cachedMap, isOpen, settings, apiVersion, pc, tdoc, token,
                 out1, queue, acked, abandoned, run, ncalls, nevents>>

\* The editor closes a document: the onDidCloseTextDocument handler runs.
CloseDocument(uri) ==
  /\ settled = NoCall
  /\ UNCHANGED lpVars
  /\ nevents < MaxEvents
  /\ nevents' = nevents + 1
  /\ isOpen[uri]
  /\ isOpen' = [isOpen EXCEPT ![uri] = FALSE]
  /\ cachedMap' = onDidCloseTextDocument(cachedMap, uri)
  /\ abandoned' = MapDelete(abandoned, uri)
  /\ run' = IF run.uri = uri THEN NoRun ELSE run
  /\ UNCHANGED <<settings, apiVersion, pc, tdoc, token, out1, settled,
                 queue, acked, ncalls>>

\* The editor opens a document again.
OpenDocument(uri) ==
  /\ settled = NoCall
  /\ UNCHANGED lpVars
  /\ ~isOpen[uri]
  /\ isOpen' = [isOpen EXCEPT ![uri] = TRUE]
  /\ UNCHANGED <<cachedMap, settings, apiVersion, pc, tdoc, token, out1,
                 settled, queue, acked, abandoned, run, ncalls, nevents>>

\* reset() is called (the server restarted).
Reset ==
  /\ settled = NoCall
  /\ UNCHANGED lpVars
  /\ DOMAIN cachedMap # {}
  /\ nevents < MaxEvents
  /\ nevents' = nevents + 1
  /\ cachedMap' = reset(cachedMap)
  /\ abandoned' = MapClear(abandoned)
  /\ run' = NoRun
  /\ UNCHANGED <<isOpen, settings, apiVersion, pc, tdoc, token, out1,
                 settled, queue, acked, ncalls>>

\* The user edits (sets or unsets) one setting.
ChangeSetting(edit) ==
  /\ settled = NoCall
  /\ UNCHANGED lpVars
  /\ nevents < MaxEvents
  /\ nevents' = nevents + 1
  /\ settings' = [settings EXCEPT ![edit[1]] =
                    IF edit[2] \in DOMAIN @ THEN MapDelete(@, edit[2])
                    ELSE MapSet(@, edit[2], edit[3])]
  /\ UNCHANGED <<cachedMap, isOpen, apiVersion, pc, tdoc, token, out1,
                 settled, queue, acked, abandoned, run, ncalls>>

\* The client reports another tsserver version.
ChangeVersion(v) ==
  /\ settled = NoCall
  /\ UNCHANGED lpVars
  /\ nevents < MaxEvents
  /\ v # apiVersion
  /\ nevents' = nevents + 1
  /\ apiVersion' = v
  /\ UNCHANGED <<cachedMap, isOpen, settings, pc, tdoc, token, out1,
                 settled, queue, acked, abandoned, run, ncalls>>

\* 'response', another reply type, or a rejected promise
Outcomes == {"response", "noContent", "reject"}

Next ==
  \/ \E t \in Tasks, uri \in Docs, o \in EditorOptions :
       CallEnsureConfigurationOptions(t, uri, o[2], o[1])
  \/ \E t \in Tasks, uri \in Docs : CallEnsureConfigurationForDocument(t, uri)
  \/ \E t \in Tasks, o \in EditorOptions : GetFormatOptionsResolved(t, o[2], o[1])
  \/ \E outcome \in Outcomes : ConfigureReply(outcome)
  \/ \E t \in Tasks : CancelToken(t)
  \/ \E t \in Tasks : ConfigureCancelled(t)
  \/ Return
  \/ \E uri \in Docs : CloseDocument(uri)
  \/ \E uri \in Docs : OpenDocument(uri)
  \/ Reset
  \/ \E edit \in SettingEdits : ChangeSetting(edit)
  \/ \E v \in Versions : ChangeVersion(v)

Spec == Init /\ [][Next]_vars

\* The same program connected to a tsserver older than 2.9.0.
InitLegacy ==
  /\ InitManager
  /\ settings = [l \in Languages |-> EmptyObject]
  /\ apiVersion = v280
  /\ lpId = "typescript"
  /\ hostApis = HostApis
  /\ InitLanguageProvider

SpecLegacy == InitLegacy /\ [][Next]_vars

(* --------------------------- LanguageProvider --------------------------- *)
\* typeof languages[name] === 'function' (lines 399, 404, 407, 458)
HasHostApi(name) == name \in hostApis
\* fileConfigurationManager.getLanguageConfiguration(this.id) (lines 105-107, 413)
getLanguageConfiguration(id) == IF id \in DOMAIN settings THEN settings[id] ELSE EmptyObject
\* conf.get<boolean>(key) used as a condition (lines 415, 445, 448)
Truthy(v) == v = "true"
\* the disposables an if-statement of registerProviders hands to _register
When(cond, registered) == IF cond THEN registered ELSE <<>>
Range(seq) == { seq[i] : i \in 1..Len(seq) }
Reverse(seq) == [i \in 1..Len(seq) |-> seq[Len(seq) + 1 - i]]

\* lines 365-382: completion, jsdoc completion and directive-comment completion
registerCompletionProviders ==
  <<"completion", "jsdocCompletion">>
  \o When(apiVersion >= v230, <<"directiveCompletion">>)

\* lines 384-398: the providers registered at every version
registerLanguageFeatures ==
  << "definition", "typeDefinition", "implementation", "references", "hover",
     "documentHighlight", "signatureHelp", "documentSymbol", "rename",
     "documentFormat", "documentRangeFormat", "onTypeFormat", "installModule" >>

\* lines 399-401
registerCallHierarchy ==
  When(apiVersion >= v380 /\ HasHostApi("registerCallHierarchyProvider"),
       <<"callHierarchy">>)

\* lines 402-410
registerSemanticTokens ==
  When(apiVersion >= v370,
       When(HasHostApi("registerDocumentSemanticTokensProvider"), <<"semanticTokens">>)
       \o When(HasHostApi("registerDocumentRangeSemanticTokensProvider"),
               <<"rangeSemanticTokens">>))

\* lines 412-418
registerUpdateImports ==
  LET conf == getLanguageConfiguration(lpId)
  IN When(lpId \in {"javascript", "typescript"},
          When(apiVersion >= v290 /\ Truthy(Get(conf, "updateImportsOnFileMove.enable")),
               <<"updateImportsOnFileRename">>))

\* lines 420-427
registerFoldingAndOrganizeImports ==
  When(apiVersion >= v280, <<"folding", "organizeImports">>)

\* the refactor gate with the comparison the wrong way round
registerRefactor_Below == When(apiVersion < v240, <<"refactor">>)

\* lines 428-435
registerRefactor == When(apiVersion >= v240, <<"refactor">>)

\* lines 436-443
registerQuickfixes == <<"quickfix", "importfix">>

\* the references code lens registered whatever the setting says
registerReferencesCodeLens_NoToggle ==
  When(apiVersion >= v206, <<"referencesCodeLens">>)

\* lines 445-447
registerReferencesCodeLens ==
  LET conf == getLanguageConfiguration(lpId)
  IN When(apiVersion >= v206 /\ Truthy(Get(conf, "referencesCodeLens.enable")),
          <<"referencesCodeLens">>)

\* lines 448-450
registerImplementationsCodeLens ==
  LET conf == getLanguageConfiguration(lpId)
  IN When(apiVersion >= v220 /\ Truthy(Get(conf, "implementationsCodeLens.enable")),
          <<"implementationsCodeLens">>)

\* lines 451-453
registerSelectionRange == When(apiVersion >= v350, <<"selectionRange">>)

\* lines 454-456
registerTagClosing == When(apiVersion >= v300, <<"tagClosing">>)

\* lines 457-462: the provider itself and its registration are both disposables
registerInlayHints ==
  When(apiVersion >= v440,
       When(HasHostApi("registerInlayHintsProvider"),
            <<"inlayHintsProvider", "inlayHints">>))

\* lines 462-464: the one call of this.client.logger.error
logInlayHintsError ==
  When(apiVersion >= v440,
       When(~HasHostApi("registerInlayHintsProvider"),
            <<"languages.registerInlayHintsProvider is not a function, inlay hints won't work">>))

\* registerProviders (lines 359-466): what it hands to _register, in order
registerProviders ==
  registerCompletionProviders \o registerLanguageFeatures \o registerCallHierarchy
  \o registerSemanticTokens \o registerUpdateImports
  \o registerFoldingAndOrganizeImports \o registerRefactor \o registerQuickfixes
  \o registerReferencesCodeLens \o registerImplementationsCodeLens
  \o registerSelectionRange \o registerTagClosing \o registerInlayHints

\* disposeAll(this.disposables) (line 352): pops every disposable off the
\* array and calls its dispose()
disposeAll(ds) == [released |-> Reverse(ds), remaining |-> <<>>]

\* The client becomes ready: the callback of lines 341-343 runs registerProviders.
OnReady ==
  /\ lpState = "constructed"
  /\ lpState' = "ready"
  /\ disposables' = disposables \o registerProviders
  /\ logged' = logged \o logInlayHintsError
  /\ UNCHANGED <<lpId, hostApis, released, ndisposes>>
  /\ UNCHANGED <<cachedMap, isOpen, settings, apiVersion, pc, tdoc, token, out1,
                 settled, queue, acked, abandoned, run, ncalls, nevents>>

\* LanguageProvider.dispose (lines 351-353)
Dispose ==
  /\ ndisposes < MaxDisposes
  /\ ndisposes' = ndisposes + 1
  /\ released' = released \o disposeAll(disposables).released
  /\ disposables' = disposeAll(disposables).remaining
  /\ UNCHANGED <<lpId, hostApis, lpState, logged>>
  /\ UNCHANGED <<cachedMap, isOpen, settings, apiVersion, pc, tdoc, token, out1,
                 settled, queue, acked, abandoned, run, ncalls, nevents>>

\* A LanguageProvider for any description, on any host, with any settings of
\* its toggles, connected to a tsserver of any version.
InitProvider ==
  /\ InitManager
  /\ \E conf \in ToggleConfigs : settings = [l \in DescriptionIds |-> conf]
  /\ apiVersion \in AllVersions
  /\ lpId \in DescriptionIds
  /\ hostApis \in HostConfigs
  /\ InitLanguageProvider

\* the server's version is known before the client is ready
NextProvider ==
  \/ OnReady
  \/ Dispose
  \/ \E v \in AllVersions : lpState = "constructed" /\ ChangeVersion(v)

SpecProvider == InitProvider /\ [][NextProvider]_vars


(* ------------------------- reading a step ------------------------------ *)
\* task t ran the body of ensureConfigurationOptions in this step
RanEnsure(t) ==
  /\ settled = NoCall
  /\ pc[t] \in {"idle", "getFormatOptions"}
  /\ pc'[t] = "configure1" \/ settled'.task = t
\* ... for this document
EnsureUri(t) == IF settled'.task = t THEN settled'.uri ELSE tdoc'[t]
\* ... it returned through the fast path of line 73
TookFastPath(t) == settled'.task = t
\* ... or it sent the request that is now last in the queue
SentRequest(t) == queue'[Len(queue')]
\* ... having derived this candidate
EnsureCandidate(t) ==
  IF settled'.task = t THEN settled'.args ELSE Snapshot(SentRequest(t).args)
\* the promise of an ensure that sent a configure settles in this step
SettlesAfterSend == settled = NoCall /\ settled'.task # 0 /\ settled'.out1 # "none"

Failures == {"noContent", "reject", "cancelled"}
\* some call is running for document d
InProgress(d) == \E t \in Tasks : pc[t] # "idle" /\ tdoc[t] = d
\* a configure request carrying the entry of d is outstanding
Outstanding(d) ==
  \E i \in 1..Len(queue) : queue[i].uri = d /\ Snapshot(queue[i].args) = cachedMap[d]
\* the entry of d is the last snapshot the backend acknowledged for d
Acknowledged(d) == d \in DOMAIN acked /\ acked[d] = cachedMap[d]
\* the fields in which two snapshots differ, over the keys of both
DiffKeys(a, b) ==
  { <<"formatOptions", k>> : k \in { x \in DOMAIN a.formatOptions \cup DOMAIN b.formatOptions :
                                      Get(a.formatOptions, x) # Get(b.formatOptions, x) } }
  \cup
  { <<"preferences", k>> : k \in { x \in DOMAIN a.preferences \cup DOMAIN b.preferences :
                                    Get(a.preferences, x) # Get(b.preferences, x) } }
\* the snapshots ensure can derive for uri in the current settings and version
Derivable(uri) ==
  { getFileOptions([tabSize |-> o[1], insertSpaces |-> o[2]], uri) : o \in EditorOptions }

(* ------------------------------ claims --------------------------------- *)

\* C1: an ensure whose freshly derived snapshot is structurally equal to the
\* cache entry of its document returns (resolved) without issuing a configure
\* request and leaves cachedMap unchanged.
C1_FastPath ==
  [][\A t \in Tasks :
       (RanEnsure(t) /\ EnsureUri(t) \in DOMAIN cachedMap
          /\ cachedMap[EnsureUri(t)] = EnsureCandidate(t))
       => /\ TookFastPath(t)
          /\ settled'.result = "resolved"
          /\ UNCHANGED <<cachedMap, queue, ncalls>>]_vars

\* an ensure has just returned through the fast path on an equal entry
C1_Witness ==
  /\ settled.task # 0
  /\ settled.out1 = "none"
  /\ settled.uri \in DOMAIN cachedMap
  /\ cachedMap[settled.uri] = settled.args
  /\ ncalls > 0

\* C2: starting from no cache entry for a document, an undisturbed, successful
\* ensure (and a second one with identical arguments right after it) makes
\* exactly one configure request reach the backend in total; the same holds
\* for the ensure after a close and reopen.
C2_ExactlyOneCall == run.n >= 1 => run.calls = 1

\* C3: when a configure request made by an ensure fails (rejected, or answered
\* with a reply that is not of type 'response'), the cache holds no entry for
\* the document once that ensure has finished, whichever of its requests failed.
C3_FailedSendEvicts ==
  [][(SettlesAfterSend /\ (settled'.out1 \in Failures \/ settled'.out2 \in Failures))
       => settled'.uri \notin DOMAIN cachedMap']_vars

C5_NoSilentDivergence ==
  \A d \in DOMAIN cachedMap : ~InProgress(d) => Acknowledged(d)

\* C6: the promise returned by ensureConfigurationOptions and
\* ensureConfigurationForDocument never rejects.
C6_NeverRejects == settled.result # "rejected"

\* C7: whether the entry is still there when an ensure that sent a configure
\* finishes is decided by the deadline-bound configure alone: the entry stays
\* exactly when that request was answered with 'response', whatever the
\* outcome of the no-deadline duplicate.
C7_DuplicateNeutral ==
  [][SettlesAfterSend
       => (settled'.uri \in DOMAIN cachedMap'
             <=> (settled'.uri \in DOMAIN cachedMap /\ settled'.out2 = "response"))]_vars

\* C8: the close handler removes the entry of the closed document and nothing
\* else (a no-op when there is none); an entry comes back only through an
\* ensure for that document, and an ensure that finds no entry always issues
\* a configure request, whatever its arguments.
C8_CloseForcesResend ==
  [][/\ \A d \in Docs :
          (isOpen[d] /\ ~isOpen'[d])
          => /\ DOMAIN cachedMap' = DOMAIN cachedMap \ {d}
             /\ \A e \in DOMAIN cachedMap' : cachedMap'[e] = cachedMap[e]
     /\ \A d \in Docs \ DOMAIN cachedMap :
          /\ d \in DOMAIN cachedMap' => \E t \in Tasks : RanEnsure(t) /\ EnsureUri(t) = d
          /\ \A t \in Tasks :
               (RanEnsure(t) /\ EnsureUri(t) = d)
               => /\ ~TookFastPath(t)
                  /\ queue' = Append(queue, SentRequest(t))
                  /\ SentRequest(t).uri = d
                  /\ ncalls' = ncalls + 1]_vars

\* an ensure that ran after its document was closed has sent a configure,
\* while the entry of the other document is still there
C8_Witness ==
  \E t \in Tasks :
    /\ pc[t] = "configure1"
    /\ ~isOpen[tdoc[t]]
    /\ tdoc[t] \in DOMAIN cachedMap
    /\ Outstanding(tdoc[t])
    /\ \E e \in DOMAIN cachedMap : e # tdoc[t]

\* C9: cachedMap never holds an entry for a document that is closed.
C9_NoEntryForClosed == \A d \in DOMAIN cachedMap : isOpen[d]

\* C10: an ensure that derives a snapshot differing in exactly one field from
\* the cache entry of its document sends a configure request whose payload is
\* the document's path with the complete derived snapshot and commits that
\* snapshot; the 'response' to the deadline-bound configure leaves the entry
\* as committed.
C10_ChangeDetection ==
  [][/\ \A t \in Tasks :
          (RanEnsure(t) /\ EnsureUri(t) \in DOMAIN cachedMap
             /\ Cardinality(DiffKeys(cachedMap[EnsureUri(t)], EnsureCandidate(t))) = 1)
          => /\ ~TookFastPath(t)
             /\ queue' = Append(queue, SentRequest(t))
             /\ SentRequest(t).args.file = toPath(EnsureUri(t))
             /\ Snapshot(SentRequest(t).args) \in Derivable(EnsureUri(t))
             /\ cachedMap'[EnsureUri(t)] = Snapshot(SentRequest(t).args)
     /\ (SettlesAfterSend /\ settled'.out2 = "response") => cachedMap' = cachedMap]_vars

\* a snapshot differing in one field from the acknowledged one is committed
\* and on its way to the backend
C10_Witness ==
  \E d \in DOMAIN cachedMap :
    /\ d \in DOMAIN acked
    /\ Cardinality(DiffKeys(acked[d], cachedMap[d])) = 1
    /\ Outstanding(d)

\* C11: an ensure returns through the fast path exactly when its document has
\* an entry that equals the derived candidate field by field over the keys of
\* both (a key that only one of the two has is a difference, whichever has
\* it); in every other case it commits the candidate and issues a configure
\* request.
C11_StructuralEquality ==
  [][\A t \in Tasks :
       RanEnsure(t)
       => LET d == EnsureUri(t)
              equal == d \in DOMAIN cachedMap /\ cachedMap[d] = EnsureCandidate(t)
          IN /\ TookFastPath(t) <=> equal
             /\ ~equal => /\ cachedMap'[d] = EnsureCandidate(t)
                          /\ queue' = Append(queue, SentRequest(t))]_vars

\* C12: when an ensure whose token was cancelled finishes after its
\* deadline-bound configure ended without a 'response' (cancelled, another
\* reply type, or rejected), the cache holds no entry for its document; and an
\* ensure that finds no entry for its document always sends.
C12_CancelEvicts ==
  [][/\ (SettlesAfterSend /\ token[settled'.task] /\ settled'.out2 \in Failures)
          => settled'.uri \notin DOMAIN cachedMap'
     /\ \A t \in Tasks :
          (RanEnsure(t) /\ EnsureUri(t) \notin DOMAIN cachedMap)
          => /\ ~TookFastPath(t)
             /\ SentRequest(t).uri = EnsureUri(t)
             /\ ncalls' = ncalls + 1]_vars

\* an ensure has just finished with its deadline-bound configure cancelled,
\* and its document has no entry
C12_Witness ==
  /\ settled.out2 = "cancelled"
  /\ settled.uri \notin DOMAIN cachedMap

\* C13: an ensure whose token is cancelled is never left waiting for the
\* reply to a configure request that was issued without that token.
C13_NotBlockedOnUncancellable ==
  \A t \in Tasks : token[t] => pc[t] # "configure1"

\* C14: reset() leaves cachedMap empty; afterwards an entry appears only
\* through an ensure that issues a configure request (never through the reply
\* to a request that was outstanding), and an ensure for a document without
\* entry always issues one.
C14_ResetClears ==
  [][/\ Reset => DOMAIN cachedMap' = {}
     /\ \A d \in Docs \ DOMAIN cachedMap :
          d \in DOMAIN cachedMap'
          => \E t \in Tasks : /\ RanEnsure(t) /\ EnsureUri(t) = d
                              /\ queue' = Append(queue, SentRequest(t))
     /\ \A t \in Tasks :
          (RanEnsure(t) /\ EnsureUri(t) \notin DOMAIN cachedMap)
          => /\ ~TookFastPath(t)
             /\ queue' = Append(queue, SentRequest(t))]_vars

\* reset() ran while the first configure of two ensures, for two documents,
\* was outstanding: both entries are gone
C14_Witness ==
  /\ nevents > 0
  /\ DOMAIN cachedMap = {}
  /\ \A t \in Tasks : pc[t] = "configure1"
  /\ \A t, u \in Tasks : tdoc[t] = tdoc[u] => t = u

\* C15: an ensure that arrives with the same candidate while the configure
\* request carrying the entry is outstanding returns through the fast path
\* without a request; and the fast path is taken only on an entry the backend
\* acknowledged or whose request is still outstanding, never on one whose
\* send has failed.
C15_OverlapBounded ==
  [][\A t \in Tasks :
       (RanEnsure(t) /\ EnsureUri(t) \in DOMAIN cachedMap)
       => /\ (cachedMap[EnsureUri(t)] = EnsureCandidate(t) /\ Outstanding(EnsureUri(t)))
               => (TookFastPath(t) /\ UNCHANGED <<queue, ncalls>>)
          /\ TookFastPath(t)
               => (Acknowledged(EnsureUri(t)) \/ Outstanding(EnsureUri(t)))]_vars

\* the preference keys of Proto.UserPreferences the program sets
PreferenceKeys ==
  { "quotePreference", "importModuleSpecifierPreference", "importModuleSpecifierEnding",
    "jsxAttributeCompletionStyle", "allowTextChangesInNewFiles", "allowRenameOfImportPath",
    "provideRefactorNotApplicableReason", "providePrefixAndSuffixTextForRename",
    "generateReturnInDocTemplate", "includeCompletionsForImportStatements",
    "includeCompletionsWithClassMemberSnippets", "includeCompletionsWithSnippetText",
    "includeCompletionsWithObjectLiteralMethodSnippets",
    "includeAutomaticOptionalChainCompletions", "useLabelDetailsInCompletionEntries",
    "allowIncompleteCompletions", "displayPartsForJSDoc",
    "includeInlayParameterNameHints",
    "includeInlayParameterNameHintsWhenArgumentMatchesName",
    "includeInlayFunctionParameterTypeHints", "includeInlayVariableTypeHints",
    "includeInlayPropertyDeclarationTypeHints", "includeInlayFunctionLikeReturnTypeHints",
    "includeInlayEnumMemberValueHints" }

\* C16: the preferences an ensure derives have no key at all when the API
\* version is below 2.9.0 and exactly the complete set of preference keys
\* when it is 2.9.0 or above.
C16_AllOrNothing ==
  [][\A t \in Tasks :
       RanEnsure(t)
       => DOMAIN EnsureCandidate(t).preferences
            = IF apiVersion < v290 THEN {} ELSE PreferenceKeys]_vars

\* below 2.9.0 an ensure has committed a snapshot with empty preferences
C16_Witness ==
  /\ apiVersion < v290
  /\ \E d \in DOMAIN cachedMap :
       /\ cachedMap[d].preferences = EmptyObject
       /\ Outstanding(d)

\* getPreferences yields preferences at the current version
SupportsPreferences ==
  \A d \in Docs : getPreferences(languageId(d), d) # EmptyObject
\* a quote style left at 'auto' reaches the backend as 'auto'
HonoursAutoQuoteStyle ==
  \A l \in Languages :
    configGet(l, "preferences", "quoteStyle", "auto") = "auto" => getQuoteStyle(l) = "auto"

\* C17: when the version moves to a higher one, settings and host unchanged,
\* everything registerProviders registers at the old version it registers at
\* the new one, and preference support and the honouring of the 'auto' quote
\* style are not lost.
C17_VersionMonotone ==
  [][apiVersion' > apiVersion
       => /\ Range(registerProviders) \subseteq Range(registerProviders)'
          /\ SupportsPreferences => SupportsPreferences'
          /\ HonoursAutoQuoteStyle => HonoursAutoQuoteStyle']_vars

\* the version moved up to 4.4.0 and the providers of that version, inlay
\* hints among them, are registered
C17_Witness ==
  /\ nevents > 0
  /\ apiVersion = v440
  /\ lpState = "ready"
  /\ ndisposes = 0
  /\ {"refactor", "inlayHints"} \subseteq Range(disposables)

\* the version-gated features of registerProviders: what is registered, the
\* minimum version, the settings toggle ("" for none) and the host function
\* that registers it ("" when the code does not test for it)
GatedFeatures ==
  { [provider |-> "directiveCompletion", min |-> v230, toggle |-> "", api |-> ""],
    [provider |-> "callHierarchy", min |-> v380, toggle |-> "",
     api |-> "registerCallHierarchyProvider"],
    [provider |-> "semanticTokens", min |-> v370, toggle |-> "",
     api |-> "registerDocumentSemanticTokensProvider"],
    [provider |-> "rangeSemanticTokens", min |-> v370, toggle |-> "",
     api |-> "registerDocumentRangeSemanticTokensProvider"],
    [provider |-> "updateImportsOnFileRename", min |-> v290,
     toggle |-> "updateImportsOnFileMove.enable", api |-> ""],
    [provider |-> "folding", min |-> v280, toggle |-> "", api |-> ""],
    [provider |-> "organizeImports", min |-> v280, toggle |-> "", api |-> ""],
    [provider |-> "refactor", min |-> v240, toggle |-> "", api |-> ""],
    [provider |-> "referencesCodeLens", min |-> v206,
     toggle |-> "referencesCodeLens.enable", api |-> ""],
    [provider |-> "implementationsCodeLens", min |-> v220,
     toggle |-> "implementationsCodeLens.enable", api |-> ""],
    [provider |-> "selectionRange", min |-> v350, toggle |-> "", api |-> ""],
    [provider |-> "tagClosing", min |-> v300, toggle |-> "", api |-> ""],
    [provider |-> "inlayHints", min |-> v440, toggle |-> "",
     api |-> "registerInlayHintsProvider"] }
\* the feature's version gate and settings toggle
VersionAndToggle(f) ==
  /\ apiVersion >= f.min
  /\ f.toggle = "" \/ Truthy(Get(getLanguageConfiguration(lpId), f.toggle))

\* C18 as stated: registerProviders registers a gated feature exactly when
\* the version meets its minimum and its settings toggle, if it has one, is
\* true.
C18_RegistrationDecision ==
  [][OnReady
       => \A f \in GatedFeatures :
            f.provider \in Range(disposables') <=> VersionAndToggle(f)]_vars

\* C18 amended: ... and, for the features whose host function the code tests
\* for, that function exists, and, for update-imports-on-rename, the
\* description id is 'javascript' or 'typescript'.
C18_RegistrationDecisionOnHost ==
  [][OnReady
       => \A f \in GatedFeatures :
            f.provider \in Range(disposables')
            <=> /\ VersionAndToggle(f)
                /\ f.api = "" \/ HasHostApi(f.api)
                /\ f.provider = "updateImportsOnFileRename"
                     => lpId \in {"javascript", "typescript"}]_vars

\* providers are registered at a version that has call hierarchy, on a host
\* without registerCallHierarchyProvider: tag closing is there, call
\* hierarchy is not
C18_Witness ==
  /\ lpState = "ready"
  /\ ndisposes = 0
  /\ apiVersion >= v380
  /\ ~HasHostApi("registerCallHierarchyProvider")
  /\ "tagClosing" \in Range(disposables)
  /\ "callHierarchy" \notin Range(disposables)

\* C19: nothing is registered twice, nothing is released twice, and once
\* dispose() has been called no registered disposable is left unreleased,
\* whatever the order of onReady and dispose().
C19_TeardownOnce ==
  LET all == released \o disposables
  IN /\ \A i, j \in DOMAIN all : all[i] = all[j] => i = j
     /\ ndisposes > 0 => disposables = <<>>

\* the optional features with the host functions they need
OptionalFeatures ==
  { [min |-> v380, apis |-> {"registerCallHierarchyProvider"}],
    [min |-> v370, apis |-> {"registerDocumentSemanticTokensProvider",
                             "registerDocumentRangeSemanticTokensProvider"}],
    [min |-> v440, apis |-> {"registerInlayHintsProvider"}] }
\* those that pass their version gate and miss a host function
Degraded ==
  { f \in OptionalFeatures : apiVersion >= f.min /\ \E a \in f.apis : ~HasHostApi(a) }

\* C20: registerProviders hands the logger one error report for each feature
\* that passes its version gate and misses its host function, and none for a
\* feature that is below its version.
C20_MissingApiReported ==
  [][OnReady => Len(logged') = Len(logged) + Cardinality(Degraded)]_vars

\* the indentation values a call of ensureConfigurationOptions may be given
TabSizes == { o[1] : o \in EditorOptions }

\* C21: for every tabSize and insertSpaces passed to
\* ensureConfigurationOptions, the configure request the call issues carries
\* the document's path as file, formatOptions.tabSize and
\* formatOptions.indentSize equal to tabSize, formatOptions.convertTabsToSpaces
\* equal to insertSpaces and the derived preferences, and nothing else; the
\* entry committed to cachedMap is the formatOptions and preferences of that
\* request; the deadline-bound request of the same call repeats the payload.
C21_PayloadShape ==
  [][/\ \A t \in Tasks, uri \in Docs, tabSize \in TabSizes, insertSpaces \in BOOLEAN :
          (/\ RanEnsure(t)
           /\ ~TookFastPath(t)
           /\ uri = EnsureUri(t)
           /\ ensureConfigurationOptions(t, uri, insertSpaces, tabSize))
          => LET args == SentRequest(t).args
             IN /\ queue' = Append(queue, SentRequest(t))
                /\ DOMAIN args = {"file", "formatOptions", "preferences"}
                /\ args.file = toPath(uri)
                /\ args.formatOptions.tabSize = tabSize
                /\ args.formatOptions.indentSize = tabSize
                /\ args.formatOptions.convertTabsToSpaces = Bool(insertSpaces)
                /\ args.preferences = getPreferences(languageId(uri), uri)
                /\ cachedMap'[uri] = Snapshot(args)
     /\ \A t \in Tasks :
          (pc[t] = "configure1" /\ pc'[t] = "configure2")
          => /\ queue' = Append(Tail(queue), SentRequest(t))
             /\ SentRequest(t).task = t
             /\ SentRequest(t).uri = Head(queue).uri
             /\ SentRequest(t).args = Head(queue).args]_vars

\* the deadline-bound request of a call made with tabSize 4 and
\* insertSpaces false is outstanding, and the entry is its payload
C21_Witness ==
  \E i \in 1..Len(queue) :
    /\ queue[i].deadline
    /\ queue[i].args.file = toPath(queue[i].uri)
    /\ queue[i].args.formatOptions.tabSize = 4
    /\ queue[i].args.formatOptions.convertTabsToSpaces = "false"
    /\ queue[i].uri \in DOMAIN cachedMap
    /\ cachedMap[queue[i].uri] = Snapshot(queue[i].args)

\* task t has a configure request outstanding in q (with the given deadline flag)
HasRequest(q, t, deadline) ==
  \E i \in 1..Len(q) : q[i].task = t /\ q[i].deadline = deadline

\* C22: an ensure that misses the cache has committed its candidate to
\* cachedMap when its no-deadline configure request is issued, and has issued
\* no request before; its deadline-bound request is issued only when the
\* no-deadline request has been answered, and carries the same payload; a call
\* never has two requests outstanding.
C22_OrderingOnMiss ==
  [][/\ \A t \in Tasks :
          (RanEnsure(t) /\ ~TookFastPath(t))
          => /\ ~HasRequest(queue, t, FALSE) /\ ~HasRequest(queue, t, TRUE)
             /\ queue' = Append(queue, SentRequest(t))
             /\ SentRequest(t).task = t
             /\ ~SentRequest(t).deadline
             /\ EnsureUri(t) \in DOMAIN cachedMap'
             /\ cachedMap'[EnsureUri(t)] = Snapshot(SentRequest(t).args)
     /\ \A t \in Tasks :
          (HasRequest(queue', t, TRUE) /\ ~HasRequest(queue, t, TRUE))
          => /\ pc[t] = "configure1"
             /\ Head(queue).task = t
             /\ ~Head(queue).deadline
             /\ out1'[t] # "none"
             /\ queue' = Append(Tail(queue), [Head(queue) EXCEPT !.deadline = TRUE])
     /\ \A t \in Tasks :
          /\ pc[t] \in {"idle", "getFormatOptions"}
               => ~HasRequest(queue, t, FALSE) /\ ~HasRequest(queue, t, TRUE)
          /\ ~(HasRequest(queue, t, FALSE) /\ HasRequest(queue, t, TRUE))]_vars

\* the no-deadline request of a call was answered and its deadline-bound
\* request, with the committed candidate as payload, is outstanding
C22_Witness ==
  \E t \in Tasks :
    /\ pc[t] = "configure2"
    /\ out1[t] = "response"
    /\ HasRequest(queue, t, TRUE)
    /\ ~HasRequest(queue, t, FALSE)
    /\ tdoc[t] \in DOMAIN cachedMap
    /\ cachedMap[tdoc[t]] = Snapshot(queue[IndexOf(t)].args)

\* C23: a close of document d, or reset(), while an ensure for d awaits the
\* reply to a configure request removes the entry of d, and the entry stays
\* away while that ensure runs on and when it finishes, whatever the replies
\* (a 'response' included): an entry appears only in the step in which an
\* ensure misses the cache, commits and sends.
C23_StaysEvicted ==
  [][/\ \A d \in Docs : (isOpen[d] /\ ~isOpen'[d]) => d \notin DOMAIN cachedMap'
     /\ Reset => DOMAIN cachedMap' = {}
     /\ \A t \in Tasks :
          (pc[t] \in Active /\ pc'[t] # pc[t] /\ tdoc[t] \notin DOMAIN cachedMap)
          => tdoc[t] \notin DOMAIN cachedMap'
     /\ \A d \in Docs \ DOMAIN cachedMap :
          d \in DOMAIN cachedMap'
          => \E t \in Tasks : /\ RanEnsure(t)
                              /\ EnsureUri(t) = d
                              /\ ~TookFastPath(t)
                              /\ cachedMap'[d] = Snapshot(SentRequest(t).args)]_vars

\* an ensure whose two configure requests were both answered with 'response'
\* has just finished for a document that was closed while it was waiting,
\* and the document has no entry
C23_Witness ==
  /\ settled.task # 0
  /\ settled.out1 = "response"
  /\ settled.out2 = "response"
  /\ ~isOpen[settled.uri]
  /\ settled.uri \notin DOMAIN cachedMap
  /\ settled.uri \in DOMAIN acked

\* C24: ensureConfigurationForDocument called for a document that has an
\* entry does not query the editor and runs ensureConfigurationOptions with
\* the tabSize and convertTabsToSpaces of the entry; when the entry is one the
\* current settings and version derive, it returns without a configure
\* request; the editor is queried only for a document without entry, and an
\* entry goes away only by a close, by reset() or by a failed send.
C24_CachedIndentationReused ==
  [][/\ \A t \in Tasks, uri \in DOMAIN cachedMap :
          (/\ pc[t] = "idle"
           /\ pc'[t] # "idle" \/ settled'.task = t
           /\ CallEnsureConfigurationForDocument(t, uri))
          => /\ pc'[t] # "getFormatOptions"
             /\ RanEnsure(t)
             /\ EnsureUri(t) = uri
             /\ EnsureCandidate(t).formatOptions.tabSize
                  = cachedMap[uri].formatOptions.tabSize
             /\ EnsureCandidate(t).formatOptions.convertTabsToSpaces
                  = cachedMap[uri].formatOptions.convertTabsToSpaces
             /\ cachedMap[uri] \in Derivable(uri)
                  => /\ TookFastPath(t)
                     /\ UNCHANGED <<cachedMap, queue, ncalls>>
     /\ \A t \in Tasks :
          (pc[t] # "getFormatOptions" /\ pc'[t] = "getFormatOptions")
          => /\ tdoc'[t] \notin DOMAIN cachedMap
             /\ UNCHANGED <<cachedMap, queue, ncalls>>
     /\ \A d \in DOMAIN cachedMap :
          d \notin DOMAIN cachedMap'
          => \/ isOpen[d] /\ ~isOpen'[d]
             \/ Reset
             \/ SettlesAfterSend /\ settled'.uri = d /\ settled'.out2 \in Failures]_vars

\* a call for a document whose entry has tabSize 4 has just returned through
\* the fast path with that tabSize, while another call, for a document without
\* entry, is waiting for the editor's indentation
C24_Witness ==
  /\ settled.task # 0
  /\ settled.out1 = "none"
  /\ settled.uri \in DOMAIN cachedMap
  /\ cachedMap[settled.uri].formatOptions.tabSize = 4
  /\ settled.args.formatOptions.tabSize = 4
  /\ settled.args.formatOptions.convertTabsToSpaces = "false"
  /\ \E u \in Tasks : pc[u] = "getFormatOptions" /\ tdoc[u] \notin DOMAIN cachedMap

====
